---------------------------- MODULE Spec2Model ----------------------------
(***************************************************************************)
(* News-Webscraper: the fresh-ingest drivers (capital_gazette_scraper.py,  *)
(* hyattsville_wire_scraper.py), the link-count backfill scripts           *)
(* (backfill_capg_links.py, backfill_hywire.py,                            *)
(* backfill_baltimore_links.py) and the link classifier they share.        *)
(*                                                                         *)
(* Text (URLs, hrefs) is a sequence of one-character strings, so that the  *)
(* URL parsing the classifier relies on is computed character by           *)
(* character, as urllib.parse computes it.                                 *)
(***************************************************************************)
EXTENDS Integers, Sequences, FiniteSets, TLC

\* ------------------------------------------------------------------ text

Lowercase ==
  <<"a","b","c","d","e","f","g","h","i","j","k","l","m",
    "n","o","p","q","r","s","t","u","v","w","x","y","z">>

Uppercase ==
  <<"A","B","C","D","E","F","G","H","I","J","K","L","M",
    "N","O","P","Q","R","S","T","U","V","W","X","Y","Z">>

Digits == <<"0","1","2","3","4","5","6","7","8","9">>

\* The characters of the model's texts, in code-point order (str comparison
\* in sorted() is by code point).
Alphabet ==
  <<" ", "#", "+", "-", ".", "/">> \o Digits \o <<":", "?", "@">> \o Uppercase
    \o <<"[", "_">> \o Lowercase

Range(s) == {s[i] : i \in 1..Len(s)}

Ord(c) == CHOOSE i \in 1..Len(Alphabet) : Alphabet[i] = c

\* str.isalpha() on an ASCII character
isalpha(c) == c \in Range(Lowercase) \cup Range(Uppercase)

\* str.isdigit(), \d
isdigit(c) == c \in Range(Digits)

lower_char(c) ==
  IF c \in Range(Uppercase)
    THEN Lowercase[CHOOSE i \in 1..26 : Uppercase[i] = c]
    ELSE c

\* str.lower()
lower(s) == [i \in 1..Len(s) |-> lower_char(s[i])]

SetMin(S) == CHOOSE i \in S : \A j \in S : i <= j

\* s.find(c, start) with 1-based positions: 0 when c does not occur
find(s, c, start) ==
  LET I == {i \in start..Len(s) : s[i] = c}
  IN IF I = {} THEN 0 ELSE SetMin(I)

\* s[from:] with a 1-based first position
Tail_from(s, from) == SubSeq(s, from, Len(s))

\* s.startswith(p)
startswith(s, p) == Len(s) >= Len(p) /\ SubSeq(s, 1, Len(p)) = p

\* s.split(c): always at least one piece
RECURSIVE split(_, _)
split(s, c) ==
  LET i == find(s, c, 1)
  IN IF i = 0 THEN <<s>>
     ELSE <<SubSeq(s, 1, i - 1)>> \o split(Tail_from(s, i + 1), c)

\* c.join(parts)
RECURSIVE join(_, _)
join(parts, c) ==
  IF Len(parts) = 0 THEN <<>>
  ELSE IF Len(parts) = 1 THEN parts[1]
  ELSE parts[1] \o <<c>> \o join(Tail(parts), c)

\* lexicographic str comparison a < b
RECURSIVE str_lt(_, _)
str_lt(a, b) ==
  IF Len(b) = 0 THEN FALSE
  ELSE IF Len(a) = 0 THEN TRUE
  ELSE IF a[1] = b[1] THEN str_lt(Tail(a), Tail(b))
  ELSE Ord(a[1]) < Ord(b[1])

\* sorted(S) for a set of texts
RECURSIVE sorted(_)
sorted(S) ==
  IF S = {} THEN <<>>
  ELSE LET m == CHOOSE x \in S : \A y \in S : y = x \/ str_lt(x, y)
       IN <<m>> \o sorted(S \ {m})

\* ---------------------------------------------------------- urllib.parse

scheme_chars == Range(Lowercase) \cup Range(Uppercase) \cup Range(Digits) \cup {"+", "-", "."}

uses_relative ==
  { <<>>,
    <<"f","t","p">>, <<"h","t","t","p">>, <<"g","o","p","h","e","r">>,
    <<"n","n","t","p">>, <<"i","m","a","p">>, <<"w","a","i","s">>,
    <<"f","i","l","e">>, <<"h","t","t","p","s">>, <<"s","h","t","t","p">>,
    <<"m","m","s">>, <<"p","r","o","s","p","e","r","o">>, <<"r","t","s","p">>,
    <<"r","t","s","p","s">>, <<"r","t","s","p","u">>, <<"s","f","t","p">>,
    <<"s","v","n">>, <<"s","v","n","+","s","s","h">>, <<"w","s">>, <<"w","s","s">> }

uses_netloc ==
  uses_relative \cup
  { <<"t","e","l","n","e","t">>, <<"s","n","e","w","s">>, <<"r","s","y","n","c">>,
    <<"n","f","s">>, <<"g","i","t">>, <<"g","i","t","+","s","s","h">> }

\* url.lstrip(_WHATWG_C0_CONTROL_OR_SPACE): the space is the only such
\* character of the Alphabet
RECURSIVE lstrip(_)
lstrip(s) == IF Len(s) > 0 /\ s[1] = " " THEN lstrip(Tail(s)) ELSE s

\* s.split(c, 1)[0] and the rest after the first c (empty when c is absent)
before(s, c) == IF find(s, c, 1) = 0 THEN s ELSE SubSeq(s, 1, find(s, c, 1) - 1)

after(s, c) == IF find(s, c, 1) = 0 THEN <<>> ELSE Tail_from(s, find(s, c, 1) + 1)

\* _splitnetloc(url, 2): the 1-based position of the first of / ? # at or
\* after the third character, Len(url) + 1 when there is none
splitnetloc_delim(url) ==
  LET I == {i \in 3..Len(url) : url[i] \in {"/", "?", "#"}}
  IN IF I = {} THEN Len(url) + 1 ELSE SetMin(I)

\* urlsplit, last part: "if '#' in url: url, fragment = url.split('#', 1)",
\* "if '?' in url: url, query = url.split('?', 1)" and the result
urlsplit_rest(ok, scheme, netloc, url) ==
  [ok |-> ok, scheme |-> scheme, netloc |-> netloc,
   path |-> before(before(url, "#"), "?"),
   query |-> after(before(url, "#"), "?"),
   fragment |-> after(url, "#")]

\* urlsplit, "if url[:2] == '//'": the netloc is split off and its brackets
\* are checked; ok = FALSE stands for ValueError("Invalid IPv6 URL")
urlsplit_netloc(url, scheme) ==
  IF startswith(url, <<"/", "/">>)
    THEN urlsplit_rest(
           ("[" \in Range(SubSeq(url, 3, splitnetloc_delim(url) - 1)))
             = ("]" \in Range(SubSeq(url, 3, splitnetloc_delim(url) - 1))),
           scheme,
           SubSeq(url, 3, splitnetloc_delim(url) - 1),
           Tail_from(url, splitnetloc_delim(url)))
    ELSE urlsplit_rest(TRUE, scheme, <<>>, url)

\* urlsplit, "i = url.find(':')" and the scheme test, i the 1-based position
urlsplit_scheme(url, i, scheme) ==
  IF /\ i > 1
     /\ isalpha(url[1])
     /\ \A k \in 1..(i - 1) : url[k] \in scheme_chars
    THEN urlsplit_netloc(Tail_from(url, i + 1), lower(SubSeq(url, 1, i - 1)))
    ELSE urlsplit_netloc(url, scheme)

urlsplit_stripped(url, scheme) == urlsplit_scheme(url, find(url, ":", 1), scheme)

\* urlsplit(url, scheme), which is urlparse for these texts.  The Alphabet
\* has no "]", no ";" and no non-ASCII character, so _check_bracketed_host,
\* _splitparams and _checknetloc have nothing to do.
urlsplit(url, scheme) == urlsplit_stripped(lstrip(url), scheme)

\* urlunsplit, "if netloc or (scheme and scheme in uses_netloc and
\* url[:2] != '//')": the "//" + netloc part
urlunsplit_netloc(scheme, netloc, path) ==
  IF netloc # <<>> \/ (scheme # <<>> /\ scheme \in uses_netloc
                        /\ ~startswith(path, <<"/", "/">>))
    THEN <<"/", "/">> \o netloc
           \o (IF path # <<>> /\ path[1] # "/" THEN <<"/">> \o path ELSE path)
    ELSE path

\* urlunsplit((scheme, netloc, url, query, fragment))
urlunsplit(scheme, netloc, path, query, fragment) ==
  (IF scheme # <<>> THEN scheme \o <<":">> ELSE <<>>)
    \o urlunsplit_netloc(scheme, netloc, path)
    \o (IF query # <<>> THEN <<"?">> \o query ELSE <<>>)
    \o (IF fragment # <<>> THEN <<"#">> \o fragment ELSE <<>>)

\* base_parts = bpath.split('/'); if base_parts[-1] != '': del base_parts[-1]
base_parts(parts) ==
  IF parts[Len(parts)] # <<>> THEN SubSeq(parts, 1, Len(parts) - 1) ELSE parts

\* segments[1:-1] = filter(None, segments[1:-1])
filter_inner(segments) ==
  IF Len(segments) <= 2 THEN segments
  ELSE <<segments[1]>>
         \o SelectSeq(SubSeq(segments, 2, Len(segments) - 1), LAMBDA x : x # <<>>)
         \o <<segments[Len(segments)]>>

\* the segments urljoin resolves
segments_of(bpath, path) ==
  IF path[1] = "/" THEN split(path, "/")
  ELSE filter_inner(base_parts(split(bpath, "/")) \o split(path, "/"))

\* the loop of urljoin that removes "." and ".." segments
RECURSIVE resolve_dots(_, _)
resolve_dots(segments, resolved) ==
  IF Len(segments) = 0 THEN resolved
  ELSE IF segments[1] = <<".", ".">>
    THEN resolve_dots(Tail(segments),
                      IF Len(resolved) = 0 THEN resolved
                      ELSE SubSeq(resolved, 1, Len(resolved) - 1))
  ELSE IF segments[1] = <<".">> THEN resolve_dots(Tail(segments), resolved)
  ELSE resolve_dots(Tail(segments), Append(resolved, segments[1]))

\* "if segments[-1] in ('.', '..'): resolved_path.append('')" and
\* "'/'.join(resolved_path) or '/'"
resolved_path(segments) ==
  IF segments[Len(segments)] \in {<<".">>, <<".", ".">>}
    THEN (IF join(Append(resolve_dots(segments, <<>>), <<>>), "/") = <<>> THEN <<"/">>
          ELSE join(Append(resolve_dots(segments, <<>>), <<>>), "/"))
  ELSE (IF join(resolve_dots(segments, <<>>), "/") = <<>> THEN <<"/">>
        ELSE join(resolve_dots(segments, <<>>), "/"))

\* urljoin once base and url are parsed (b, u); netloc is the one the result
\* takes
urljoin_relative(b, u, netloc) ==
  IF u.path = <<>>
    THEN urlunsplit(u.scheme, netloc, b.path,
                    IF u.query = <<>> THEN b.query ELSE u.query, u.fragment)
  ELSE urlunsplit(u.scheme, netloc, resolved_path(segments_of(b.path, u.path)),
                  u.query, u.fragment)

urljoin_parsed(url, b, u) ==
  IF ~b.ok \/ ~u.ok THEN [ok |-> FALSE, url |-> <<>>]
  ELSE IF u.scheme # b.scheme \/ u.scheme \notin uses_relative
    THEN [ok |-> TRUE, url |-> url]
  ELSE IF u.scheme \in uses_netloc /\ u.netloc # <<>>
    THEN [ok |-> TRUE,
          url |-> urlunsplit(u.scheme, u.netloc, u.path, u.query, u.fragment)]
  ELSE [ok |-> TRUE,
        url |-> urljoin_relative(b, u, IF u.scheme \in uses_netloc
                                         THEN b.netloc ELSE u.netloc)]

urljoin_base(url, b) == urljoin_parsed(url, b, urlsplit(url, b.scheme))

\* urljoin(base, url).  ok = FALSE stands for the ValueError of urlsplit.
urljoin(base, url) ==
  IF base = <<>> THEN [ok |-> TRUE, url |-> url]
  ELSE IF url = <<>> THEN [ok |-> TRUE, url |-> base]
  ELSE urljoin_base(url, urlsplit(base, <<>>))

\* -------------------------------------------------------- link classifier

\* the test "dom == '' or dom == base_domain" with subdomains folded onto
\* the base domain (a leading "www." ignored on either side)
strip_www(d) ==
  IF startswith(d, <<"w","w","w",".">>) THEN Tail_from(d, 5) ELSE d

is_internal_folded(dom, base_domain) ==
  dom = <<>> \/ strip_www(dom) = strip_www(base_domain)

\* if dom == "" or dom == base_domain: internal, else external
is_internal(dom, base_domain) == dom = <<>> \/ dom = base_domain

\* The classification loop: "for a in anchors" of count_links, "for href in
\* links_in_body" of parse_article.  An exception of urljoin or urlparse is
\* not caught in the loop: it ends it (ok = FALSE).
RECURSIVE classify_loop(_, _, _, _, _)
RECURSIVE classify_full(_, _, _, _, _, _)
RECURSIVE classify_dom(_, _, _, _, _, _)

\* dom = urlparse(full).netloc and the test on it
classify_dom(anchors, article_url, base_domain, internal, external, parsed) ==
  IF ~parsed.ok
    THEN [ok |-> FALSE, internal |-> internal, external |-> external]
  ELSE IF is_internal(parsed.netloc, base_domain)
    THEN classify_loop(Tail(anchors), article_url, base_domain, internal + 1, external)
  ELSE classify_loop(Tail(anchors), article_url, base_domain, internal, external + 1)

\* full = urljoin(article_url, href)
classify_full(anchors, article_url, base_domain, internal, external, full) ==
  IF ~full.ok
    THEN [ok |-> FALSE, internal |-> internal, external |-> external]
  ELSE classify_dom(anchors, article_url, base_domain, internal, external,
                    urlsplit(full.url, <<>>))

classify_loop(anchors, article_url, base_domain, internal, external) ==
  IF Len(anchors) = 0
    THEN [ok |-> TRUE, internal |-> internal, external |-> external]
  ELSE classify_full(anchors, article_url, base_domain, internal, external,
                     urljoin(article_url, anchors[1]))

count_links_from(anchors, article_url, base) ==
  IF ~base.ok THEN [ok |-> FALSE, internal |-> 0, external |-> 0]
  ELSE classify_loop(anchors, article_url, base.netloc, 0, 0)

\* count_links(page_soup, article_url) on the anchors its selector selects;
\* ok = FALSE: the call raised
count_links(anchors, article_url) ==
  count_links_from(anchors, article_url, urlsplit(article_url, <<>>))

\* ------------------------------------------------------- sites and pages

\* https://www.capitalgazette.com/
capg_prefix ==
  <<"h","t","t","p","s",":","/","/","w","w","w",".","c","a","p","i","t",
    "a","l","g","a","z","e","t","t","e",".","c","o","m","/">>

\* https://www.hyattsvillewire.com/category/
hy_category_prefix ==
  <<"h","t","t","p","s",":","/","/","w","w","w",".","h","y","a","t","t",
    "s","v","i","l","l","e","w","i","r","e",".","c","o","m","/","c","a",
    "t","e","g","o","r","y","/">>

\* https://hyattsvillewire.com/
hy_prefix ==
  <<"h","t","t","p","s",":","/","/","h","y","a","t","t","s","v","i","l",
    "l","e","w","i","r","e",".","c","o","m","/">>

\* SECTIONS of capital_gazette_scraper.py, in the order of the dict
SECTIONS_capg ==
  << [label |-> "politics",
      url |-> capg_prefix \o <<"n","e","w","s","/","p","o","l","i","t","i","c","s","/">>],
     [label |-> "business",
      url |-> capg_prefix \o <<"b","u","s","i","n","e","s","s","/">>],
     [label |-> "sports",
      url |-> capg_prefix \o <<"s","p","o","r","t","s","/">>],
     [label |-> "education",
      url |-> capg_prefix \o <<"n","e","w","s","/","e","d","u","c","a","t","i","o","n","/">>] >>

\* SECTIONS of hyattsville_wire_scraper.py, in the order of the dict
SECTIONS_hy ==
  << [label |-> "woodridge",
      url |-> hy_category_prefix \o <<"w","o","o","d","r","i","d","g","e","/">>],
     [label |-> "riverdale-park",
      url |-> hy_category_prefix \o <<"r","i","v","e","r","d","a","l","e","-","p","a","r","k","/">>],
     [label |-> "college-park",
      url |-> hy_category_prefix \o <<"c","o","l","l","e","g","e","-","p","a","r","k","/">>],
     [label |-> "mount-rainier",
      url |-> hy_category_prefix \o <<"m","o","u","n","t","-","r","a","i","n","i","e","r","/">>],
     [label |-> "brentwood",
      url |-> hy_category_prefix \o <<"b","r","e","n","t","w","o","o","d","/">>],
     [label |-> "bladensburg",
      url |-> hy_category_prefix \o <<"b","l","a","d","e","n","s","b","u","r","g","/">>],
     [label |-> "edmonston",
      url |-> hy_category_prefix \o <<"e","d","m","o","n","s","t","o","n","/">>],
     [label |-> "hyattsville",
      url |-> hy_category_prefix \o <<"h","y","a","t","t","s","v","i","l","l","e","/">>],
     [label |-> "greenbelt",
      url |-> hy_category_prefix \o <<"g","r","e","e","n","b","e","l","t","/">>] >>

\* hrefs of listing pages
\* /2025/04/28/a/
href_a_rel ==
  <<"/","2","0","2","5","/","0","4","/","2","8","/","a","/">>

\* /about/
href_about ==
  <<"/","a","b","o","u","t","/">>

\* https://www.capitalgazette.com/2025/04/28/b/#comments
href_b_frag == capg_prefix \o <<"2","0","2","5","/","0","4","/","2","8","/","b","/","#","c","o","m",
                                "m","e","n","t","s">>

\* https://www.capitalgazette.com/2025/04/28/b/
href_b_abs == capg_prefix \o <<"2","0","2","5","/","0","4","/","2","8","/","b","/">>

\* test_url of the __main__ block of capital_gazette_scraper.py:
\* https://www.capitalgazette.com/2025/04/28/anne-arundel-special-tax-districts-
\* boards-deny-secrecy-overspending-claims/
test_url ==
  <<
    "h","t","t","p","s",":","/","/","w","w","w",".","c","a","p","i","t","a","l","g","a","z","e","t","t","e",".","c","o","m","/","2","0","2","5","/","0","4","/","2","8","/","a","n","n","e","-","a","r","u","n","d","e","l","-","s","p","e","c","i","a","l","-","t","a","x","-","d","i","s","t","r","i","c","t","s","-","b","o","a","r","d","s","-","d","e","n","y","-","s","e","c","r","e","c","y","-","o","v","e","r","s","p","e","n","d","i","n","g","-","c","l","a","i","m","s","/"
  >>

\* https://www.capitalgazette.com/2025/04/28/B/
href_b_upper == capg_prefix \o <<"2","0","2","5","/","0","4","/","2","8","/","B","/">>

\* /2025/04/28/a
href_a_noslash ==
  <<"/","2","0","2","5","/","0","4","/","2","8","/","a">>

\* https://example.org/2025/04/28/z/
href_elsewhere ==
  <<"h","t","t","p","s",":","/","/","e","x","a","m","p","l","e",".","o",
    "r","g","/","2","0","2","5","/","0","4","/","2","8","/","z","/">>

\* https://hyattsvillewire.com/2025/04/28/x/
href_x_abs == hy_prefix \o <<"2","0","2","5","/","0","4","/","2","8","/","x","/">>

\* /2025/04/28/x/
href_x_rel ==
  <<"/","2","0","2","5","/","0","4","/","2","8","/","x","/">>

\* https://hyattsvillewire.com/2025/04/28/y#top
href_y_frag == hy_prefix \o <<"2","0","2","5","/","0","4","/","2","8","/","y","#","t","o","p">>

\* https://hyattsvillewire.com/2025/04/28/y
href_y_abs == hy_prefix \o <<"2","0","2","5","/","0","4","/","2","8","/","y">>

\* https://hyattsvillewire.com/category/brentwood/
href_category == hy_prefix \o <<"c","a","t","e","g","o","r","y","/","b","r","e","n","t","w","o","o",
                                "d","/">>

\* hrefs of article bodies
\* /news/
href_news ==
  <<"/","n","e","w","s","/">>

\* #top
href_top ==
  <<"#","t","o","p">>

\* mailto:tips@example.org
href_mail ==
  <<"m","a","i","l","t","o",":","t","i","p","s","@","e","x","a","m","p",
    "l","e",".","o","r","g">>

\* https://example.org/report
href_ext1 ==
  <<"h","t","t","p","s",":","/","/","e","x","a","m","p","l","e",".","o",
    "r","g","/","r","e","p","o","r","t">>

\* //cdn.example.net/chart
href_ext2 ==
  <<"/","/","c","d","n",".","e","x","a","m","p","l","e",".","n","e","t",
    "/","c","h","a","r","t">>

\* http://[
href_malformed ==
  <<"h","t","t","p",":","/","/","[">>

\* the examples of the classifier's contract
\* https://site.example/a/b
example_base ==
  <<"h","t","t","p","s",":","/","/","s","i","t","e",".","e","x","a","m",
    "p","l","e","/","a","/","b">>

\* /section/story
ex_path ==
  <<"/","s","e","c","t","i","o","n","/","s","t","o","r","y">>

\* mailto:x@y.z
ex_mailto ==
  <<"m","a","i","l","t","o",":","x","@","y",".","z">>

\* javascript:v
ex_javascript ==
  <<"j","a","v","a","s","c","r","i","p","t",":","v">>

\* #f
ex_fragment ==
  <<"#","f">>

\* https://site.example/x
ex_same ==
  <<"h","t","t","p","s",":","/","/","s","i","t","e",".","e","x","a","m",
    "p","l","e","/","x">>

\* https://other.example/x
ex_other ==
  <<"h","t","t","p","s",":","/","/","o","t","h","e","r",".","e","x","a",
    "m","p","l","e","/","x">>

\* https://www.site.example/x
ex_www ==
  <<"h","t","t","p","s",":","/","/","w","w","w",".","s","i","t","e",".",
    "e","x","a","m","p","l","e","/","x">>

\* ------------------------------------------------------ listing discoverer

all_digits(s, n) == Len(s) = n /\ \A i \in 1..n : isdigit(s[i])

\* r"^https://www\.capitalgazette\.com/\d{4}/\d{2}/\d{2}/[^/]+/$"
pattern_capg(href) ==
  /\ startswith(href, capg_prefix)
  /\ LET parts == split(Tail_from(href, Len(capg_prefix) + 1), "/")
     IN /\ Len(parts) = 5
        /\ all_digits(parts[1], 4)
        /\ all_digits(parts[2], 2)
        /\ all_digits(parts[3], 2)
        /\ parts[4] # <<>>
        /\ parts[5] = <<>>

\* r"^https://hyattsvillewire\.com/\d{4}/\d{2}/\d{2}/[^/]+/?$"
pattern_hy(href) ==
  /\ startswith(href, hy_prefix)
  /\ LET parts == split(Tail_from(href, Len(hy_prefix) + 1), "/")
     IN /\ Len(parts) \in {4, 5}
        /\ all_digits(parts[1], 4)
        /\ all_digits(parts[2], 2)
        /\ all_digits(parts[3], 2)
        /\ parts[4] # <<>>
        /\ Len(parts) = 5 => parts[5] = <<>>

\* href.split("#")[0]
strip_fragment(href) == split(href, "#")[1]

\* if href.startswith("/"): href = urljoin(section_url, href)
resolve_href(section_url, href) ==
  IF startswith(href, <<"/">>) THEN urljoin(section_url, href)
  ELSE [ok |-> TRUE, url |-> href]

\* the body of "for a in soup.select('a[href]')" of the Capital Gazette
\* scraper: the set of links the hrefs add
links_capg(section_url, hrefs) ==
  {strip_fragment(resolve_href(section_url, hrefs[i]).url) :
     i \in {j \in 1..Len(hrefs) :
              LET h == resolve_href(section_url, hrefs[j]).url
              IN startswith(h, capg_prefix) /\ pattern_capg(strip_fragment(h))}}

\* the same loop of the Hyattsville Wire scraper
links_hy(section_url, hrefs) ==
  {strip_fragment(resolve_href(section_url, hrefs[i]).url) :
     i \in {j \in 1..Len(hrefs) :
              pattern_hy(strip_fragment(resolve_href(section_url, hrefs[j]).url))}}

\* the links in document order, a list and not a set
get_all_page_links_listed(site, section_url, hrefs) ==
  IF \E i \in 1..Len(hrefs) : ~resolve_href(section_url, hrefs[i]).ok
    THEN [ok |-> FALSE, links |-> <<>>]
  ELSE [ok |-> TRUE,
        links |-> SelectSeq([i \in 1..Len(hrefs) |->
                               strip_fragment(resolve_href(section_url, hrefs[i]).url)],
                            LAMBDA h : IF site = "capg"
                                         THEN startswith(h, capg_prefix) /\ pattern_capg(h)
                                         ELSE pattern_hy(h))]

\* get_all_page_links(section_url, label) on the hrefs of the fetched
\* listing page; ok = FALSE: urljoin raised ValueError.  The while loop
\* runs once (page_url = None after the first page).
get_all_page_links(site, section_url, hrefs) ==
  IF \E i \in 1..Len(hrefs) : ~resolve_href(section_url, hrefs[i]).ok
    THEN [ok |-> FALSE, links |-> <<>>]
  ELSE [ok |-> TRUE,
        links |-> sorted(IF site = "capg" THEN links_capg(section_url, hrefs)
                         ELSE links_hy(section_url, hrefs))]

\* ------------------------------------------------------------ environment

\* The listing page a section serves: the hrefs of its "a[href]" elements
\* in document order.
ListingPages ==
  [ lc1 |-> <<href_a_rel, href_about, href_b_frag, href_b_abs>>,
    lc2 |-> <<href_b_abs, href_elsewhere, href_a_noslash>>,
    lc3 |-> <<href_b_frag, href_b_upper>>,
    lh1 |-> <<href_x_abs, href_x_rel, href_y_frag, href_category>>,
    lh2 |-> <<href_y_abs, href_y_frag>>,
    lh0 |-> <<href_category>> ]

\* What each section of a site serves, section by section.  The listings
\* of a behaviour do not change, so every run sees the same listing set.
ListingSets ==
  [ capg |-> { <<"lc1", "lc2", "lc1", "lc2">>,
               <<"lc2", "lc2", "lc1", "lc2">>,
               <<"lc3", "lc2", "lc2", "lc2">> },
    hy   |-> { <<"lh1", "lh0", "lh0", "lh0", "lh2", "lh0", "lh0", "lh0", "lh0">>,
               <<"lh2", "lh0", "lh0", "lh0", "lh0", "lh0", "lh0", "lh0", "lh1">> } ]

\* An article page as the scripts read it: the text of h1.entry-title, the
\* joined paragraph text, the hrefs of the anchors each script's selector
\* selects, the number of div[id^='arcad-feature'] elements, and (imgs)
\* the number of "div.body-copy img" with a src and no width and height.
\*   body_copy      "div.body-copy p a[href]"
\*   entry_content  "div.entry-content p a[href]"
\*   article_body   "div.article-body p[data-testid='text-container'] a[href]"
ArticlePages ==
  [ plain  |-> [headline |-> "Budget vote", text |-> "short",
                body_copy |-> <<>>, entry_content |-> <<>>,
                article_body |-> <<>>, arcad |-> 0, imgs |-> 0],
    linked |-> [headline |-> "Budget vote, updated", text |-> "long",
                body_copy |-> <<href_news, href_ext1, href_top, href_ext2, href_mail>>,
                entry_content |-> <<href_news, href_ext1, href_top, href_ext2, href_mail>>,
                article_body |-> <<>>, arcad |-> 1, imgs |-> 2],
    broken |-> [headline |-> "Budget vote", text |-> "short",
                body_copy |-> <<href_news, href_malformed>>,
                entry_content |-> <<href_news, href_malformed>>,
                article_body |-> <<>>, arcad |-> 0, imgs |-> 1] ]

PageNames == DOMAIN ArticlePages

\* What the rendering session reports for the ad selectors, when it works
AdCounts == {2}

\* The value a column takes in a row whose INSERT does not name it.  The
\* schema is not part of the repository: NULL (<<>>) or a DEFAULT 0.
ColumnDefaults == {<<>>, <<0>>}

\* ------------------------------------------------------ article extractor

\* parse_article(url) of capital_gazette_scraper.py on the fetched page.
\* ok = FALSE: the classification loop raised.  get_image_dims swallows its
\* own failures, so images never fail the extraction.
parse_article_capg(url, page) ==
  LET links_in_body == page.body_copy
      counted == count_links(links_in_body, url)
  IN [ok |-> counted.ok,
      url |-> url,
      headline |-> page.headline,
      num_links |-> Len(links_in_body),
      internal_links |-> counted.internal,
      external_links |-> counted.external,
      num_ads_est |-> page.arcad,
      article_text |-> page.text]

\* What the rendering session of parse_article does: the driver cannot be
\* installed or started (nothing to quit); driver.get raises (render_failed);
\* driver.get returns, time.sleep(3) runs, and a find_elements call or
\* page_source raises (count_failed); or the elements are counted.  When
\* the try raises, the finally clause quits the driver and the exception
\* goes on.
RenderOutcomes ==
  {[status |-> "start_failed", ads |-> 0], [status |-> "render_failed", ads |-> 0],
   [status |-> "count_failed", ads |-> 0]}
    \cup {[status |-> "ok", ads |-> n] : n \in AdCounts}

\* the session is quit only when the render went through: try with no finally
session_use_unreleased(s, fetched, render) ==
  IF s # "hy" \/ ~fetched \/ render.status = "start_failed"
    THEN [opened |-> 0, released |-> 0]
  ELSE [opened |-> 1, released |-> IF render.status = "ok" THEN 1 ELSE 0]

\* The rendering sessions parse_article opens and quits.  Only the
\* Hyattsville scraper renders; get_soup raising comes before the driver
\* is made; webdriver.Chrome(...) raising leaves no driver; after it,
\* "try: driver.get(url) ... finally: driver.quit()" quits on both ways out.
session_use(s, fetched, render) ==
  IF s # "hy" \/ ~fetched \/ render.status = "start_failed"
    THEN [opened |-> 0, released |-> 0]
  ELSE [opened |-> 1, released |-> 1]

\* parse_article(url) of hyattsville_wire_scraper.py on the fetched page and
\* the outcome of the rendering session.  ok = FALSE: the call raised.
parse_article_hy(url, page, render) ==
  [ok |-> render.status = "ok",
   url |-> url,
   headline |-> page.headline,
   num_links |-> Len(page.entry_content),
   ad_count |-> render.ads,
   text |-> page.text]

\* ------------------------------------------------------------------ store

\* A row of capitol_gazette or hyattsville_wire.  internal_links and
\* external_links are <<>> (NULL) or <<n>>.  The columns pub_date,
\* headline_len, word_count, num_images, images and date_scraped are written
\* by the INSERT alone and read by no script; they are left out.
StoreURLs(rows) == {r.url : r \in rows}

\* INSERT INTO capitol_gazette (...) VALUES (...) ON CONFLICT (url) DO NOTHING
insert_capg(rows, data, label) ==
  IF data.url \in StoreURLs(rows) THEN rows
  ELSE rows \cup {[id |-> Cardinality(rows) + 1,
                   section |-> label,
                   url |-> data.url,
                   headline |-> data.headline,
                   num_links |-> data.num_links,
                   internal_links |-> <<data.internal_links>>,
                   external_links |-> <<data.external_links>>,
                   ads |-> data.num_ads_est,
                   text |-> data.article_text]}

\* INSERT INTO hyattsville_wire (...) VALUES (...) ON CONFLICT (url) DO
\* NOTHING: the statement names neither internal_links nor external_links
insert_hy(rows, data, label, default) ==
  IF data.url \in StoreURLs(rows) THEN rows
  ELSE rows \cup {[id |-> Cardinality(rows) + 1,
                   section |-> label,
                   url |-> data.url,
                   headline |-> data.headline,
                   num_links |-> data.num_links,
                   internal_links |-> default,
                   external_links |-> default,
                   ads |-> data.ad_count,
                   text |-> data.text]}

\* the UPDATE without its WHERE clause
update_links_everywhere(rows, id, i_count, e_count) ==
  {[r EXCEPT !.internal_links = <<i_count>>, !.external_links = <<e_count>>] :
     r \in rows}

\* UPDATE <table> SET internal_links = %s, external_links = %s WHERE id = %s
update_links(rows, id, i_count, e_count) ==
  {IF r.id = id
     THEN [r EXCEPT !.internal_links = <<i_count>>, !.external_links = <<e_count>>]
     ELSE r : r \in rows}

\* ------------------------------------------------------------- the scripts

\* Runs of the scripts in one behaviour
MaxRuns == 2

\* Anchors of a page handed to the classifier on its own
MaxAnchors == 2

Sites == {"capg", "hy"}

SECTIONS(s) == IF s = "capg" THEN SECTIONS_capg ELSE SECTIONS_hy

\* The backfill scripts that update a site's table: backfill_capg_links.py
\* and backfill_baltimore_links.py update capitol_gazette,
\* backfill_hywire.py updates hyattsville_wire.
BackfillScripts(s) ==
  IF s = "capg" THEN {"backfill", "backfill_baltimore"} ELSE {"backfill"}

\* the selector of count_links in each backfill script
selector(s, scr) ==
  IF scr = "backfill_baltimore" THEN "article_body"
  ELSE IF s = "capg" THEN "body_copy" ELSE "entry_content"

\* main(limit_per_section): 0 stands for None (both are falsy)
Limits == {0, 1}

VARIABLES
  site,                \* the site, and so the table, of this behaviour
  listing,             \* the listing page each of its sections serves
  col_default,         \* what an unnamed link-count column of its table takes
  store,               \* the rows of the table
  script,              \* the script that runs, or ran last
  pc,                  \* idle | sections | articles | rows | debug | done | raised
  cause,               \* what raised out of the script: connect | listing | item | debug
  runs,                \* runs started so far
  prior_ingest,        \* an earlier run was a fresh ingest, with no limit, that ran to its end
  existing_urls,       \* main's set of known URLs
  seed,                \* the URLs of the store when the run started
  new_articles_count,
  limit,               \* limit_per_section
  sec,                 \* position in SECTIONS.items()
  article_links,       \* the list the inner loop iterates
  idx,                 \* position in article_links, or in rows
  rows,                \* the (id, url) pairs the backfill fetched
  failed,              \* URLs whose item failed in this run
  persisted,           \* URLs whose item was inserted or patched in this run
  sessions,            \* rendering sessions (webdriver.Chrome) open
  net,                 \* the fetches and sleeps of the last step, in order
  last,                \* what the last loop iteration did
  cls,                 \* the classifier applied on its own
  memo                 \* the pure functions on this site's pages, computed once

vars ==
  <<site, listing, col_default, store, script, pc, cause, runs, prior_ingest,
    existing_urls, seed, new_articles_count, limit, sec, article_links, idx,
    rows, failed, persisted, sessions, net, last, cls, memo>>

env_vars == <<site, listing, col_default, memo>>

NoItem ==
  [op |-> "none", url |-> <<>>, page |-> "none", why |-> "none", id |-> 0,
   before |-> <<>>, peak |-> 0]

NoClassification == [anchors |-> <<>>, done |-> FALSE, result |-> <<>>]

\* the known URLs are not read from the table
known_urls_unseeded(table_rows) == {}

\* existing_urls = set(); SELECT url FROM <table>; existing_urls.add(row[0])
known_urls(table_rows) == {r.url : r \in table_rows}

\* if url in existing_urls: continue
is_known(url, known) == url \in known

\* the URL is not added after the INSERT
mark_known_dropped(known, url) == known

\* existing_urls.add(url), after the INSERT
mark_known(known, url) == known \cup {url}

\* the exception of an item leaves the loop
after_item_failure_raises(next) == "raised"

\* except Exception as exc: logging.warning(...): the loop goes on
after_item_failure(next) == next

\* if limit_per_section: article_links = article_links[:limit_per_section]
limited(links, lim) ==
  IF lim # 0 /\ lim < Len(links) THEN SubSeq(links, 1, lim) ELSE links

\* rows = cur.fetchall() of a SELECT with no ORDER BY: the (id, url) pairs in
\* any order
Fetchall(table_rows) ==
  LET pairs == {<<r.id, r.url>> : r \in table_rows}
      n == Cardinality(pairs)
  IN {s \in [1..n -> pairs] : \A i, j \in 1..n : s[i] = s[j] => i = j}

Selectors == {"body_copy", "entry_content", "article_body"}

\* get_all_page_links for each section of site s serving the listing pages
\* ls, count_links for each article URL they lead to, each page and each
\* selector, and parse_article of the Capital Gazette scraper for each such
\* URL and page.  The listing pages and the article pages are fixed, and
\* these are functions of them alone: the actions look their values up.
Discovered(s, ls) ==
  [i \in 1..Len(SECTIONS(s)) |->
     get_all_page_links(s, SECTIONS(s)[i].url, ListingPages[ls[i]])]

ArticleURLs(discovered) ==
  UNION {Range(discovered[i].links) : i \in DOMAIN discovered}

Memo(s, ls) ==
  [discovered |-> Discovered(s, ls),
   counted |-> [u \in ArticleURLs(Discovered(s, ls)) |->
                  [p \in PageNames |->
                     [sel \in Selectors |-> count_links(ArticlePages[p][sel], u)]]],
   parsed |-> [u \in ArticleURLs(Discovered(s, ls)) |->
                 [p \in PageNames |-> parse_article_capg(u, ArticlePages[p])]],
   debug |-> [p \in PageNames |-> parse_article_capg(test_url, ArticlePages[p])]]

Init ==
  /\ site \in Sites
  /\ listing \in ListingSets[site]
  /\ col_default \in (IF site = "hy" THEN ColumnDefaults ELSE {<<>>})
  /\ store = {}
  /\ script = "none"
  /\ pc = "idle"
  /\ cause = "none"
  /\ runs = 0
  /\ prior_ingest = FALSE
  /\ existing_urls = {}
  /\ seed = {}
  /\ new_articles_count = 0
  /\ limit = 0
  /\ sec = 1
  /\ article_links = <<>>
  /\ idx = 1
  /\ rows = <<>>
  /\ failed = {}
  /\ persisted = {}
  /\ sessions = 0
  /\ net = <<>>
  /\ last = NoItem
  /\ cls = NoClassification
  /\ memo = Memo(site, listing)

\* The network operations of get_all_page_links: get_soup(page_url), and
\* time.sleep(0.8) once the anchors are gone through; get_soup or urljoin
\* raising leaves the function before the sleep.
net_listing(ok) == IF ok THEN <<"listing", "delay">> ELSE <<"listing">>

\* The network operations of one iteration of the article loop that
\* reaches its try: those of parse_article, then time.sleep of main, which
\* follows the try/except.  Capital Gazette: get_soup(url), and after the
\* link loop get_image_dims(src) for each img with no width and height.
\* Hyattsville Wire: get_soup(url), then driver.get(url) when the driver
\* started, then time.sleep(3) when driver.get returned, whether or not
\* the counting that follows raises.
net_article(s, fetched, parsed_ok, page, render) ==
  <<"article">>
    \o (IF ~fetched THEN <<>>
        ELSE IF s = "capg"
          THEN (IF parsed_ok THEN [i \in 1..page.imgs |-> "image"] ELSE <<>>)
        ELSE IF render.status = "start_failed" THEN <<>>
        ELSE IF render.status = "render_failed" THEN <<"render">>
        ELSE <<"render", "delay">>)
    \o <<"delay">>

\* One iteration of the loop of a backfill script: get_soup(url), then
\* time.sleep(0.5) after the try/except
net_backfill == <<"article", "delay">>

\* A script is started: the process of the last run, if any, has ended.
Startable == pc \in {"idle", "done", "raised"} /\ runs < MaxRuns

StartRun(scr) ==
  /\ Startable
  /\ runs' = runs + 1
  /\ prior_ingest' = (prior_ingest \/ (script = "ingest" /\ pc = "done" /\ limit = 0))
  /\ script' = scr
  /\ seed' = StoreURLs(store)
  /\ new_articles_count' = 0
  /\ sec' = 1
  /\ article_links' = <<>>
  /\ idx' = 1
  /\ failed' = {}
  /\ persisted' = {}
  /\ net' = <<>>
  /\ last' = NoItem
  /\ UNCHANGED <<env_vars, store, sessions, cls>>

\* main() of a scraper up to its loop: psycopg2.connect raises, or the known
\* URLs are read from the table
StartIngest ==
  /\ StartRun("ingest")
  /\ rows' = <<>>
  /\ \E connected \in BOOLEAN, lim \in Limits :
       IF connected
         THEN /\ pc' = "sections"
              /\ cause' = "none"
              /\ limit' = lim
              /\ existing_urls' = known_urls(store)
         ELSE /\ pc' = "raised"
              /\ cause' = "connect"
              /\ limit' = 0
              /\ existing_urls' = {}

\* main() of a backfill script up to its loop
StartBackfill ==
  /\ \E scr \in BackfillScripts(site) : StartRun(scr)
  /\ limit' = 0
  /\ existing_urls' = {}
  /\ \E connected \in BOOLEAN :
       IF connected
         THEN /\ pc' = "rows"
              /\ cause' = "none"
              /\ rows' \in Fetchall(store)
         ELSE /\ pc' = "raised"
              /\ cause' = "connect"
              /\ rows' = <<>>

\* One iteration of "for section_url, label in SECTIONS.items()" up to the
\* inner loop: get_all_page_links is called outside any try, so a failed
\* fetch of the listing page (get_soup raises) or a ValueError of urljoin
\* leaves main.
Discover ==
  /\ pc = "sections"
  /\ sec <= Len(SECTIONS(site))
  /\ \E fetched \in BOOLEAN :
       LET found == memo.discovered[sec]
           links == limited(found.links, limit)
       IN IF fetched /\ found.ok
            THEN /\ net' = net_listing(TRUE)
                 /\ article_links' = links
                 /\ idx' = 1
                 /\ sec' = IF links = <<>> THEN sec + 1 ELSE sec
                 /\ pc' = IF links = <<>> THEN "sections" ELSE "articles"
                 /\ cause' = cause
            ELSE /\ net' = net_listing(FALSE)
                 /\ pc' = "raised"
                 /\ cause' = "listing"
                 /\ UNCHANGED <<article_links, idx, sec>>
  /\ last' = NoItem
  /\ UNCHANGED <<env_vars, store, script, runs, prior_ingest, existing_urls, seed,
                 new_articles_count, limit, rows, failed, persisted, sessions, cls>>

RenderChoices(s) ==
  IF s = "hy" THEN RenderOutcomes ELSE {[status |-> "ok", ads |-> 0]}

\* the first step of an item that failed
why_failed(fetched, parsed_ok, render, written) ==
  IF ~fetched THEN "fetch"
  ELSE IF render.status # "ok" THEN "ads"
  ELSE IF ~parsed_ok THEN "parse"
  ELSE IF ~written THEN "persist"
  ELSE "none"

\* One iteration of "for url in tqdm(article_links, ...)"; after the last
\* one the outer loop moves to the next section.
ProcessArticle ==
  /\ pc = "articles"
  /\ idx <= Len(article_links)
  /\ LET url == article_links[idx]
         label == SECTIONS(site)[sec].label
         more == idx < Len(article_links)
         next == IF more THEN "articles" ELSE "sections"
     IN /\ idx' = idx + 1
        /\ sec' = IF more THEN sec ELSE sec + 1
        /\ \/ /\ is_known(url, existing_urls)
              /\ pc' = next
              /\ net' = <<>>
              /\ last' = [NoItem EXCEPT !.op = "skipped", !.url = url]
              /\ UNCHANGED <<store, existing_urls, new_articles_count, failed,
                             persisted, sessions, cause>>
           \/ /\ ~is_known(url, existing_urls)
              /\ \E fetched \in BOOLEAN, p \in PageNames,
                    render \in RenderChoices(site), written \in BOOLEAN :
                   LET data == IF site = "capg"
                                 THEN memo.parsed[url][p]
                                 ELSE parse_article_hy(url, ArticlePages[p], render)
                       why == why_failed(fetched, data.ok, render, written)
                       use == session_use(site, fetched, render)
                   IN IF why = "none"
                        THEN /\ store' = IF site = "capg"
                                           THEN insert_capg(store, data, label)
                                           ELSE insert_hy(store, data, label, col_default)
                             /\ existing_urls' = mark_known(existing_urls, url)
                             /\ new_articles_count' = new_articles_count + 1
                             /\ pc' = next
                             /\ persisted' = persisted \cup {url}
                             /\ sessions' = sessions + use.opened - use.released
                             /\ net' = net_article(site, fetched, data.ok, ArticlePages[p],
                                                    render)
                             /\ last' = [NoItem EXCEPT !.op = "inserted", !.url = url,
                                                       !.page = p,
                                                       !.peak = sessions + use.opened]
                             /\ UNCHANGED <<failed, cause>>
                        ELSE /\ pc' = after_item_failure(next)
                             /\ cause' = IF after_item_failure(next) = "raised"
                                           THEN "item" ELSE cause
                             /\ failed' = failed \cup {url}
                             /\ sessions' = sessions + use.opened - use.released
                             /\ net' = net_article(site, fetched, data.ok, ArticlePages[p],
                                                    render)
                             /\ last' = [NoItem EXCEPT !.op = "failed", !.url = url,
                                                       !.why = why,
                                                       !.peak = sessions + use.opened]
                             /\ UNCHANGED <<store, existing_urls, new_articles_count,
                                            persisted>>
  /\ UNCHANGED <<env_vars, script, runs, prior_ingest, seed, limit, article_links,
                 rows, cls>>

\* One iteration of "for id_, url in tqdm(rows, ...)" of a backfill script
BackfillStep ==
  /\ pc = "rows"
  /\ idx <= Len(rows)
  /\ LET id == rows[idx][1]
         url == rows[idx][2]
         row == CHOOSE r \in store : r.id = id
     IN \E fetched \in BOOLEAN, p \in PageNames, written \in BOOLEAN :
          LET counted == memo.counted[url][p][selector(site, script)]
              why == why_failed(fetched, counted.ok, [status |-> "ok", ads |-> 0], written)
          IN IF why = "none"
               THEN /\ store' = update_links(store, id, counted.internal, counted.external)
                    /\ pc' = "rows"
                    /\ last' = [NoItem EXCEPT !.op = "patched", !.url = url, !.page = p,
                                  !.id = id,
                                  !.before = <<row.internal_links, row.external_links>>]
                    /\ persisted' = persisted \cup {url}
                    /\ UNCHANGED <<failed, cause>>
               ELSE /\ pc' = after_item_failure("rows")
                    /\ cause' = IF after_item_failure("rows") = "raised"
                                  THEN "item" ELSE cause
                    /\ failed' = failed \cup {url}
                    /\ last' = [NoItem EXCEPT !.op = "failed", !.url = url, !.id = id,
                                                !.why = why]
                    /\ UNCHANGED <<store, persisted>>
  /\ idx' = idx + 1
  /\ net' = net_backfill
  /\ UNCHANGED <<env_vars, script, runs, prior_ingest, existing_urls, seed,
                 new_articles_count, limit, sec, article_links, rows, sessions, cls>>

\* The network operations of parse_article of capital_gazette_scraper.py
\* called on its own: get_soup(url), and after the link loop
\* get_image_dims(src) for each img with no width and height; no sleep.
net_parse(fetched, parsed_ok, page) ==
  <<"article">>
    \o (IF fetched /\ parsed_ok THEN [i \in 1..page.imgs |-> "image"] ELSE <<>>)

\* capital_gazette_scraper.py run as a script: its __main__ block runs,
\* main() is not called and the table is not touched.
StartDebug ==
  /\ site = "capg"
  /\ StartRun("debug")
  /\ rows' = <<>>
  /\ limit' = 0
  /\ existing_urls' = {}
  /\ pc' = "debug"
  /\ cause' = "none"

\* The __main__ block: parse_article(test_url), four fields of the result
\* printed, sys.exit(0).  An exception of parse_article is not caught.
DebugParse ==
  /\ pc = "debug"
  /\ \E fetched \in BOOLEAN, p \in PageNames :
       LET data == memo.debug[p]
           why == why_failed(fetched, data.ok, [status |-> "ok", ads |-> 0], TRUE)
       IN /\ pc' = IF why = "none" THEN "done" ELSE "raised"
          /\ cause' = IF why = "none" THEN "none" ELSE "debug"
          /\ net' = net_parse(fetched, data.ok, ArticlePages[p])
          /\ last' = [NoItem EXCEPT !.op = IF why = "none" THEN "parsed" ELSE "failed",
                                   !.url = test_url, !.page = p, !.why = why]
  /\ UNCHANGED <<env_vars, store, script, runs, prior_ingest, existing_urls, seed,
                 new_articles_count, limit, sec, article_links, idx, rows, failed,
                 persisted, sessions, cls>>

\* cur.close(); conn.close(); the closing log line (and print) of main
Finish ==
  /\ \/ pc = "sections" /\ sec > Len(SECTIONS(site))
     \/ pc = "rows" /\ idx > Len(rows)
  /\ pc' = "done"
  /\ net' = <<>>
  /\ UNCHANGED <<env_vars, store, script, cause, runs, prior_ingest, existing_urls,
                 seed, new_articles_count, limit, sec, article_links, idx, rows,
                 failed, persisted, sessions, last, cls>>

Next ==
  \/ StartIngest
  \/ StartBackfill
  \/ StartDebug
  \/ DebugParse
  \/ Discover
  \/ ProcessArticle
  \/ BackfillStep
  \/ Finish

Spec == Init /\ [][Next]_vars

\* ------------------------------------------------- the classifier on its own

\* the hrefs of the classifier's contract
ExampleHrefs ==
  {ex_path, ex_mailto, ex_javascript, ex_fragment, ex_same, ex_other, ex_www,
   href_malformed}

AnchorLists == UNION {[1..n -> ExampleHrefs] : n \in 0..MaxAnchors}

InitClassify ==
  /\ site = "capg"
  /\ listing \in ListingSets[site]
  /\ col_default = <<>>
  /\ store = {}
  /\ script = "none"
  /\ pc = "idle"
  /\ cause = "none"
  /\ runs = 0
  /\ prior_ingest = FALSE
  /\ existing_urls = {}
  /\ seed = {}
  /\ new_articles_count = 0
  /\ limit = 0
  /\ sec = 1
  /\ article_links = <<>>
  /\ idx = 1
  /\ rows = <<>>
  /\ failed = {}
  /\ persisted = {}
  /\ sessions = 0
  /\ net = <<>>
  /\ last = NoItem
  /\ memo = <<>>
  /\ cls \in {[anchors |-> a, done |-> FALSE, result |-> <<>>] : a \in AnchorLists}

\* count_links is applied to the anchors, with example_base the article URL
Classify ==
  /\ ~cls.done
  /\ cls' = [cls EXCEPT !.done = TRUE,
                        !.result = count_links(cls.anchors, example_base)]
  /\ UNCHANGED <<env_vars, store, script, pc, cause, runs, prior_ingest,
                 existing_urls, seed, new_articles_count, limit, sec, article_links,
                 idx, rows, failed, persisted, sessions, net, last>>

SpecClassify == InitClassify /\ [][Classify]_vars

\* ------------------------------------------------------------- properties

\* The items of the run: the article URLs its listings lead to (cut to the
\* limit), or the URLs of the rows a backfill fetched
RunItems ==
  IF script = "ingest"
    THEN UNION {Range(limited(memo.discovered[i].links, limit)) :
                  i \in 1..Len(SECTIONS(site))}
    ELSE {rows[i][2] : i \in 1..Len(rows)}

\* the URLs of the batch at hand that the loop has gone past
ProcessedInBatch == {article_links[j] : j \in 1..(idx - 1)}

IngestStep == pc = "articles" /\ idx' = idx + 1

BackfillRowStep == pc = "rows" /\ idx' = idx + 1

Attempted(item) == item.op \in {"inserted", "failed"}

RowOf(table_rows, id) == CHOOSE r \in table_rows : r.id = id

\* C1: a failure of one item never leaves main, a failed item leaves the
\* store as it was, and at the end of a run (fresh ingest or backfill) every
\* item that did not fail is persisted: inserted or already stored for an
\* ingest, patched for a backfill.
C1_ItemFailureIsolated ==
  /\ [](/\ pc = "raised" => cause # "item"
        /\ pc = "done" =>
             \A u \in RunItems :
               \/ u \in failed
               \/ u \in persisted /\ u \in StoreURLs(store)
               \/ script = "ingest" /\ u \in seed /\ u \in StoreURLs(store))
  /\ [][(IngestStep \/ BackfillRowStep) =>
          /\ last'.op = "failed" => store' = store
          /\ script = "ingest" => store \subseteq store']_vars

\* An item of a batch failed, the row was not written, and the next item
\* of the same batch was inserted.
C1_Witness ==
  /\ script = "ingest"
  /\ last.op = "inserted"
  /\ idx >= 3
  /\ article_links[idx - 2] \in failed
  /\ article_links[idx - 2] \notin StoreURLs(store)
  /\ article_links[idx - 1] \in StoreURLs(store)

\* C2: main of a scraper only ever raises because the connection to the store failed;
\* a failed fetch of a listing page does not end the run.
C2_OnlyConnectFailureIsFatal ==
  (script = "ingest" /\ pc = "raised") => cause = "connect"

\* C3 as stated: a fresh ingest that follows a fresh ingest with no limit
\* that ran to its end inserts no record.
C3_SecondRunInsertsNothing ==
  (script = "ingest" /\ prior_ingest) => new_articles_count = 0

\* C3: a fresh ingest never extracts or inserts a URL the store held when
\* the run started; it counts exactly the URLs it added to the store; and
\* it inserts nothing when the store it started from held every URL its
\* listings lead to.
C3_KnownURLsNeverReingested ==
  script = "ingest" =>
    /\ Attempted(last) => last.url \notin seed
    /\ persisted \cap seed = {}
    /\ seed \subseteq StoreURLs(store)
    /\ new_articles_count = Cardinality(StoreURLs(store) \ seed)
    /\ Cardinality(store) = Cardinality(StoreURLs(store))
    /\ RunItems \subseteq seed => new_articles_count = 0

\* A fresh ingest that follows a complete one, over listings whose every
\* URL the store already held, went through them all and inserted nothing.
C3_Witness ==
  /\ script = "ingest"
  /\ prior_ingest
  /\ pc = "done"
  /\ seed # {}
  /\ RunItems \subseteq seed
  /\ last.op = "skipped"
  /\ new_articles_count = 0

\* C4 as stated: a URL that failed in this run is not attempted again in it.
C4_NoRetryWithinRun ==
  [][(IngestStep /\ Attempted(last')) => last'.url \notin failed]_vars

\* C4: a URL that failed is not marked known, and no URL is attempted
\* twice within the batch of one listing; a URL that failed is known later
\* in the run only if a later attempt in the same run inserted it.
C4_NoRetryWithinListing ==
  /\ [][IngestStep =>
          /\ Attempted(last') => last'.url \notin ProcessedInBatch
          /\ last'.op = "failed" =>
               /\ existing_urls' = existing_urls
               /\ last'.url \notin existing_urls']_vars
  /\ [](script = "ingest" =>
          \A u \in failed : u \in existing_urls => u \in persisted)

\* A URL that failed earlier in the run was surfaced by a later listing of
\* the same run, attempted again and inserted.
C4_Witness ==
  /\ script = "ingest"
  /\ last.op = "inserted"
  /\ last.url \in failed
  /\ last.url \in StoreURLs(store)

\* C5: the known URLs of a fresh ingest are those of the store at its start
\* and those it inserted, which is what the store holds; and only a URL
\* that is not known is extracted.
C5_KnownURLSet ==
  /\ []((script = "ingest" /\ cause # "connect") =>
          /\ existing_urls = seed \cup persisted
          /\ existing_urls = StoreURLs(store))
  /\ [][IngestStep =>
          /\ Attempted(last') => last'.url \notin existing_urls
          /\ last'.op = "inserted" =>
               existing_urls' = existing_urls \cup {last'.url}
          /\ last'.op # "inserted" => existing_urls' = existing_urls
          /\ last'.op = "skipped" => last'.url \in existing_urls]_vars

\* A URL inserted in this run was surfaced again by a later listing and
\* skipped.
C5_Witness ==
  /\ script = "ingest"
  /\ last.op = "skipped"
  /\ last.url \in persisted
  /\ last.url \notin seed

\* C6: a backfill step that succeeds sets the two link counts of its row to
\* what count_links gives on the fetched page ((3, 2) for the page with 3
\* internal and 2 external body links) and changes nothing else; a step
\* that fails changes nothing; a backfill never adds or removes a row.
C6_BackfillFrame ==
  /\ [][BackfillRowStep =>
          /\ Cardinality(store') = Cardinality(store)
          /\ \A r \in store :
               IF last'.op = "patched" /\ r.id = last'.id
                 THEN LET c == memo.counted[r.url][last'.page][selector(site, script)]
                      IN /\ [r EXCEPT !.internal_links = <<c.internal>>,
                                      !.external_links = <<c.external>>] \in store'
                         /\ (last'.page = "linked" /\ script = "backfill") =>
                              c.internal = 3 /\ c.external = 2
                 ELSE r \in store']_vars
  /\ [](script \in {"backfill", "backfill_baltimore"} =>
          StoreURLs(store) = seed /\ Cardinality(store) = Cardinality(seed))

\* A row with the stale counts (0, 0) was patched to (3, 2), its other
\* fields as they were, with another row in the table.
C6_Witness ==
  /\ script = "backfill"
  /\ last.op = "patched"
  /\ last.page = "linked"
  /\ last.before = << <<0>>, <<0>> >>
  /\ Cardinality(store) >= 2
  /\ LET r == RowOf(store, last.id)
     IN /\ r.internal_links = <<3>>
        /\ r.external_links = <<2>>
        /\ r.url = last.url

\* C7: the two link counts of every stored row add up to its num_links.
C7_CountsAddUp ==
  \A r \in store :
    /\ r.internal_links # <<>>
    /\ r.external_links # <<>>
    /\ r.internal_links[1] + r.external_links[1] = r.num_links

\* the hrefs of the contract that are internal, and those that are external
InternalExamples == {ex_path, ex_mailto, ex_javascript, ex_fragment, ex_same}

ExternalExamples == {ex_other, ex_www}

CountOf(anchors, S) == Cardinality({i \in 1..Len(anchors) : anchors[i] \in S})

\* C8: on anchors that resolve, count_links counts as internal the hrefs
\* with no host or with the host of the article URL, and as external the
\* others, www.site.example among them.
C8_ClassifierSemantics ==
  (cls.done /\ CountOf(cls.anchors, {href_malformed}) = 0) =>
    /\ cls.result.ok
    /\ cls.result.internal = CountOf(cls.anchors, InternalExamples)
    /\ cls.result.external = CountOf(cls.anchors, ExternalExamples)

\* "/section/story" and the www href were classified: one internal, one
\* external.
C8_Witness ==
  /\ cls.done
  /\ cls.anchors = <<ex_path, ex_www>>
  /\ cls.result = [ok |-> TRUE, internal |-> 1, external |-> 1]

\* C9: count_links returns for every list of anchors, and its two counts
\* add up to the number of anchors that resolve.
C9_MalformedHrefSkipped ==
  cls.done =>
    /\ cls.result.ok
    /\ cls.result.internal + cls.result.external =
         Len(cls.anchors) - CountOf(cls.anchors, {href_malformed})

\* C10: no article fails because the render that counts the ads failed.
C10_AdCountFailureTolerated == last.op = "failed" => last.why # "ads"


\* C11: between two iterations no rendering session is open, and within
\* an iteration at most one is: the session parse_article opened has been
\* quit when it returns or raises.
C11_SessionScopedToArticle ==
  /\ sessions = 0
  /\ last.peak <= 1

\* The render of a Hyattsville article failed with its session open, the
\* article failed, and no session is left open.
C11_Witness ==
  /\ site = "hy"
  /\ last.op = "failed"
  /\ last.why = "ads"
  /\ last.peak = 1
  /\ sessions = 0


\* a URL with its fragment cut and its letters in lower case
normalized(url) == lower(strip_fragment(url))

\* C12: no two rows of the store have URLs that are equal once the
\* fragment is cut and the letters are put in lower case.
C12_OneRecordPerNormalizedURL ==
  \A r1, r2 \in store : normalized(r1.url) = normalized(r2.url) => r1 = r2


\* C13: in the fetches and sleeps of every step, each fetch is followed by
\* a sleep before the next fetch, and the step ends with a sleep unless
\* the script ended with it.
C13_DelayAfterEveryFetch ==
  /\ \A i \in 1..(Len(net) - 1) : net[i] # "delay" => net[i + 1] = "delay"
  /\ (net # <<>> /\ pc \notin {"raised", "done"}) => net[Len(net)] = "delay"

=============================================================================
